---- MODULE Spec2Model ----
(***************************************************************************)
(* The game session of open-tetris-novelty: the useGameLogic hook          *)
(* (src/hooks/useGameLogic.ts) over the pure rules of src/lib/utils.ts.    *)
(*                                                                         *)
(* Every handler of the hook is one action.  A handler reads the state of  *)
(* the render it was created in (its closure) and queues its updates;      *)
(* React applies them together when the handler returns.  So an action     *)
(* reads only unprimed variables, also where the code has just "set" one   *)
(* (updateGhostPiece after setBoard reads the board of the closure).       *)
(***************************************************************************)
EXTENDS Integers, Sequences, FiniteSets, TLC

(***************************************************************************)
(* lib/constants.ts                                                        *)
(***************************************************************************)
BOARD_WIDTH == 10
BOARD_HEIGHT == 20
INITIAL_SPEED == 1000
LEVEL_SPEED_MULTIPLIER == 50
PREVIEW_PIECES == 3
POINTS_SOFT_DROP == 1
POINTS_HARD_DROP == 2

Null == "null"

TETROMINO_TYPES == <<"I", "O", "T", "S", "Z", "J", "L">>

Kinds == {TETROMINO_TYPES[i] : i \in 1..Len(TETROMINO_TYPES)}

TETROMINO_SHAPES ==
  [I |-> << <<0, 0, 0, 0>>, <<1, 1, 1, 1>>, <<0, 0, 0, 0>>, <<0, 0, 0, 0>> >>,
   O |-> << <<1, 1>>, <<1, 1>> >>,
   T |-> << <<0, 1, 0>>, <<1, 1, 1>>, <<0, 0, 0>> >>,
   S |-> << <<0, 1, 1>>, <<1, 1, 0>>, <<0, 0, 0>> >>,
   Z |-> << <<1, 1, 0>>, <<0, 1, 1>>, <<0, 0, 0>> >>,
   J |-> << <<1, 0, 0>>, <<1, 1, 1>>, <<0, 0, 0>> >>,
   L |-> << <<0, 0, 1>>, <<1, 1, 1>>, <<0, 0, 0>> >>]

(***************************************************************************)
(* Bounds of the model                                                     *)
(***************************************************************************)
\* Math.random() is an input: a seed selects the sequence of its results.
MaxSeed == 1
\* Player commands (everything but the gravity tick) and pieces handed out by the
\* supply in one behaviour that starts at the mount.
MaxCmds == 1
MaxDraws == 2
\* Commands in one behaviour that starts at the top-out, where the stack leaves the
\* pieces two rows to move in.
TopOutCmds == 2
\* Commands in one behaviour that starts in a session with rows to clear.
ResumeCmds == 0
\* Pieces handed out in one behaviour that starts in a session in progress.
ResumeDraws == 1
\* Pieces handed out in one behaviour of SpecBag, which follows the fair bag past
\* its first seven draws; it takes MaxCmds commands.
BagDraws == 8
\* Columns and rows beyond the left and top edges of the board that the pieces
\* tried in SpecRules reach; to the right and below they reach past the last
\* column and row by the width of their shape.
ProbeMargin == 2
\* Pieces placed, each followed by a selection, in SpecSelect.
SelectRounds == 1
\* Kinds (the first of TETROMINO_TYPES) of the piece placed first in SpecSelect.
SelectKinds == 3

Seeds == 0..MaxSeed

(***************************************************************************)
(* lib/utils.ts: board and piece geometry                                  *)
(***************************************************************************)
\* a JavaScript array, as the sequence of its elements
Array(f) == SubSeq(f, 1, Len(f))

EmptyRow == Array([x \in 1..BOARD_WIDTH |-> Null])

createEmptyBoard == Array([y \in 1..BOARD_HEIGHT |-> EmptyRow])

\* rotated[j][N - 1 - i] = matrix[i][j], on 1-based rows and columns
rotateMatrix(matrix) ==
  LET N == Len(matrix)
  IN  Array([r \in 1..N |-> Array([c \in 1..N |-> matrix[N + 1 - c][r]])])

\* getRotatedShape: rotateMatrix applied piece.rotation times to the base shape
RECURSIVE RotateTimes(_, _)
RotateTimes(shape, n) ==
  IF n <= 0 THEN shape ELSE RotateTimes(rotateMatrix(shape), n - 1)

\* the position of a kind in TETROMINO_TYPES
KindIndex == [I |-> 1, O |-> 2, T |-> 3, S |-> 4, Z |-> 5, J |-> 6, L |-> 7]

\* getRotatedShape for every kind and rotation count, evaluated once
RotatedShapes ==
  Array([k \in 1..Len(TETROMINO_TYPES) |->
    Array([n \in 1..4 |-> RotateTimes(TETROMINO_SHAPES[TETROMINO_TYPES[k]], n - 1)])])

getRotatedShape(piece) == RotatedShapes[KindIndex[piece.type]][piece.rotation + 1]

\* the (x, y) offsets of the cells the two loops over shape visit with shape[y][x] set
CellsOf(shape) ==
  LET N == Len(shape)
  IN  {<<i % N, i \div N>> :
         i \in {k \in 0..(N * N - 1) : shape[(k \div N) + 1][(k % N) + 1] # 0}}

ShapeCells ==
  Array([k \in 1..Len(TETROMINO_TYPES) |->
    Array([n \in 1..4 |-> CellsOf(RotatedShapes[k][n])])])

OccupiedOffsets(piece) == ShapeCells[KindIndex[piece.type]][piece.rotation + 1]

Tetromino(type, x, y, rotation) ==
  [type |-> type, position |-> [x |-> x, y |-> y], rotation |-> rotation]

NoPiece == Tetromino(Null, 0, 0, 0)

generateNewPiece(type) ==
  Tetromino(type, (BOARD_WIDTH - Len(TETROMINO_SHAPES[type][1])) \div 2, 0, 0)

\* isValidMove with every test skipped for the cells above the board
isValidMoveOnBoardOnly(piece, board) ==
  \A c \in OccupiedOffsets(piece) :
     LET boardX == piece.position.x + c[1]
         boardY == piece.position.y + c[2]
     IN  ~(boardY >= 0 /\ (\/ boardX < 0
                           \/ boardX >= BOARD_WIDTH
                           \/ boardY >= BOARD_HEIGHT
                           \/ board[boardY + 1][boardX + 1] # Null))

isValidMove(piece, board) ==
  \A c \in OccupiedOffsets(piece) :
     LET boardX == piece.position.x + c[1]
         boardY == piece.position.y + c[2]
     IN  ~(\/ boardX < 0
           \/ boardX >= BOARD_WIDTH
           \/ boardY >= BOARD_HEIGHT
           \/ (boardY >= 0 /\ board[boardY + 1][boardX + 1] # Null))

\* newBoard[boardY][boardX] = type for the cells in written (columns and rows from
\* 1): a write past the end of a row makes the row longer (the entries between read
\* as empty), a write to a column before the first changes none of the row's entries
WriteCells(board, type, written) ==
  Array([y \in 1..Len(board) |->
    IF \A c \in written : c[2] # y THEN board[y]
    ELSE LET xs == {c[1] : c \in {d \in written : d[2] = y}}
         IN  Array([x \in 1..(IF \E z \in xs : z > Len(board[y])
                               THEN CHOOSE z \in xs : \A w \in xs : w <= z
                               ELSE Len(board[y])) |->
                IF x \in xs THEN type
                ELSE IF x <= Len(board[y]) THEN board[y][x] ELSE Null])])

\* cells are written only for 0 <= boardY < BOARD_HEIGHT
addPieceToBoard(board, piece) ==
  WriteCells(board, piece.type,
             {<<piece.position.x + c[1] + 1, piece.position.y + c[2] + 1>> :
                c \in OccupiedOffsets(piece)})

isRowFull(row) == \A x \in 1..Len(row) : row[x] # Null

\* board.reduce: a full row counts and puts an empty row in front of the rows kept so
\* far (unshift), any other row is appended (push)
RECURSIVE ClearReduce(_, _, _)
ClearReduce(board, i, acc) ==
  IF i > Len(board) THEN acc
  ELSE IF isRowFull(board[i])
       THEN ClearReduce(board, i + 1,
              [newBoard |-> <<EmptyRow>> \o acc.newBoard,
               linesCleared |-> acc.linesCleared + 1])
       ELSE ClearReduce(board, i + 1,
              [acc EXCEPT !.newBoard = Append(@, board[i])])

\* clearLines putting the empty rows after the rows kept (push for unshift)
clearLinesEmptyRowsLast(board) ==
  LET kept == SelectSeq(board, LAMBDA row : ~isRowFull(row))
      n    == Len(board) - Len(kept)
  IN  [newBoard |-> kept \o [i \in 1..n |-> EmptyRow], linesCleared |-> n]

\* clearLines putting two empty rows on top for every full row it removes
clearLinesRefillsTwice(board) ==
  LET kept == SelectSeq(board, LAMBDA row : ~isRowFull(row))
      n    == Len(board) - Len(kept)
  IN  [newBoard |-> [i \in 1..(2 * n) |-> EmptyRow] \o kept, linesCleared |-> n]

\* clearLines looking at every row but the bottom one
clearLinesSparesBottom(board) ==
  LET upper == SubSeq(board, 1, Len(board) - 1)
      cl    == ClearReduce(upper, 1, [newBoard |-> <<>>, linesCleared |-> 0])
  IN  [newBoard |-> Append(cl.newBoard, board[Len(board)]),
       linesCleared |-> cl.linesCleared]

clearLines(board) ==
  ClearReduce(board, 1, [newBoard |-> <<>>, linesCleared |-> 0])

MoveTo(piece, x, y) == [piece EXCEPT !.position = [x |-> x, y |-> y]]

RECURSIVE LowestY(_, _, _)
LowestY(piece, board, y) ==
  IF isValidMove(MoveTo(piece, piece.position.x, y + 1), board)
  THEN LowestY(piece, board, y + 1)
  ELSE y

getGhostPiecePosition(piece, board) ==
  MoveTo(piece, piece.position.x, LowestY(piece, board, piece.position.y))

\* getWallKicks: the offsets tried for the transition currentRotation -> next, in
\* table order
StandardKicks ==
  [r \in 0..3 |->
     CASE r = 0 -> << <<0, 0>>, <<-1, 0>>, <<-1, -1>>, <<0, 2>>, <<-1, 2>> >>
       [] r = 1 -> << <<0, 0>>, <<1, 0>>, <<1, 1>>, <<0, -2>>, <<1, -2>> >>
       [] r = 2 -> << <<0, 0>>, <<1, 0>>, <<1, -1>>, <<0, 2>>, <<1, 2>> >>
       [] r = 3 -> << <<0, 0>>, <<-1, 0>>, <<-1, 1>>, <<0, -2>>, <<-1, -2>> >>]

IKicks ==
  [r \in 0..3 |->
     CASE r = 0 -> << <<0, 0>>, <<-2, 0>>, <<1, 0>>, <<-2, 1>>, <<1, -2>> >>
       [] r = 1 -> << <<0, 0>>, <<-1, 0>>, <<2, 0>>, <<-1, -2>>, <<2, 1>> >>
       [] r = 2 -> << <<0, 0>>, <<2, 0>>, <<-1, 0>>, <<2, -1>>, <<-1, 2>> >>
       [] r = 3 -> << <<0, 0>>, <<1, 0>>, <<-2, 0>>, <<1, 2>>, <<-2, -1>> >>]

getWallKicks(piece, currentRotation) ==
  IF piece.type = "I" THEN IKicks[currentRotation]
  ELSE IF piece.type = "O" THEN << <<0, 0>> >>
  ELSE StandardKicks[currentRotation]

(***************************************************************************)
(* lib/utils.ts: scoring, level, speed                                     *)
(***************************************************************************)
\* calculateScore without the level factor
calculateScoreUnscaled(n, lvl) ==
  CASE n = 1 -> 100 [] n = 2 -> 300 [] n = 3 -> 500 [] n = 4 -> 800 [] OTHER -> 0

calculateScore(n, lvl) ==
  (CASE n = 1 -> 100 [] n = 2 -> 300 [] n = 3 -> 500 [] n = 4 -> 800
     [] OTHER -> 0) * lvl

\* calculateLevel rounding up instead of down
calculateLevelRoundedUp(n) == ((n + 9) \div 10) + 1

calculateLevel(n) == (n \div 10) + 1

minSpeed == 100

\* calculateSpeed without the Math.max
calculateSpeedNoFloor(lvl) == INITIAL_SPEED - (lvl - 1) * LEVEL_SPEED_MULTIPLIER

calculateSpeed(lvl) ==
  LET calculatedSpeed == INITIAL_SPEED - (lvl - 1) * LEVEL_SPEED_MULTIPLIER
  IN  IF calculatedSpeed > minSpeed THEN calculatedSpeed ELSE minSpeed

isGameOver(piece, board) == ~isValidMove(piece, board)

(***************************************************************************)
(* lib/utils.ts: piece supply                                              *)
(***************************************************************************)
\* Math.floor(Math.random() * n) in the sequence of results the seed selects
RandomInt(seed, n) == (seed * (n - 1)) % n

Swap(bag, i, j) == [bag EXCEPT ![i] = bag[j], ![j] = bag[i]]

\* for (i = bag.length - 1; i > 0; i--) swap bag[i], bag[random j in 0..i]
RECURSIVE FisherYates(_, _, _)
FisherYates(bag, i, seed) ==
  IF i <= 0 THEN bag
  ELSE FisherYates(Swap(bag, i + 1, RandomInt(seed, i + 1) + 1), i - 1, seed)

generateBag(seed) == FisherYates(TETROMINO_TYPES, Len(TETROMINO_TYPES) - 1, seed)

(***************************************************************************)
(* lib/utils.ts: the piece selector of assist mode (composite score)       *)
(***************************************************************************)
\* per column, the empty cells below the first filled cell from the top
\* (foundBlock); firstBlock[x] is that cell's row, BOARD_HEIGHT + 1 if none
countHoles(board) ==
  LET firstBlock ==
        Array([x \in 1..BOARD_WIDTH |->
                 IF \E y \in 1..BOARD_HEIGHT : board[y][x] # Null
                 THEN CHOOSE y \in 1..BOARD_HEIGHT :
                        /\ board[y][x] # Null
                        /\ \A z \in 1..(y - 1) : board[z][x] = Null
                 ELSE BOARD_HEIGHT + 1])
  IN  Cardinality({c \in (1..BOARD_WIDTH) \X (1..BOARD_HEIGHT) :
                     c[2] > firstBlock[c[1]] /\ board[c[2]][c[1]] = Null})

\* BOARD_HEIGHT - y for the first row y (from the top) that has a cell, 0 if none
FirstFilled(rows) ==
  IF rows = {} THEN 0
  ELSE BOARD_HEIGHT - (CHOOSE y \in rows : \A z \in rows : y <= z) + 1

RECURSIVE SumOfSteps(_, _)
SumOfSteps(columnHeights, i) ==
  IF i >= Len(columnHeights) THEN 0
  ELSE (IF columnHeights[i] >= columnHeights[i + 1]
        THEN columnHeights[i] - columnHeights[i + 1]
        ELSE columnHeights[i + 1] - columnHeights[i])
       + SumOfSteps(columnHeights, i + 1)

calculateBoardMetrics(board) ==
  LET columnHeights ==
        Array([x \in 1..BOARD_WIDTH |->
                 FirstFilled({y \in 1..BOARD_HEIGHT : board[y][x] # Null})])
  IN  [holes |-> countHoles(board),
       height |-> FirstFilled({y \in 1..BOARD_HEIGHT :
                                 \E x \in 1..BOARD_WIDTH : board[y][x] # Null}),
       bumpiness |-> SumOfSteps(columnHeights, 1)]

\* the weighted sum in tenths, so that the weights 10, 0.5, 0.3 and -5 are the
\* integers 100, 5, 3 and -50 (lower is better)
WeightedSum(metrics, linesCleared) ==
  metrics.holes * 100 + metrics.height * 5 + metrics.bumpiness * 3
  - linesCleared * 50

scoreBoardState(currentBoard, resultBoard, linesCleared) ==
  WeightedSum(calculateBoardMetrics(resultBoard), linesCleared)

\* bestPlacement = null
NoPlacement == [found |-> FALSE, score |-> 0, x |-> 0, rotation |-> 0, linesCleared |-> 0]

\* the piece of the given kind, column and rotation dropped from row 0 to its
\* lowest valid row
DropAt(pieceType, board, x, rotation) ==
  getGhostPiecePosition(
     [generateNewPiece(pieceType) EXCEPT !.rotation = rotation,
                                         !.position = [x |-> x, y |-> 0]], board)

\* the end of a pass: r is what clearLines returned for the board with the piece
ScoredPlacement(board, r, x, rotation) ==
  [found |-> TRUE, score |-> scoreBoardState(board, r.newBoard, r.linesCleared),
   x |-> x, rotation |-> rotation, linesCleared |-> r.linesCleared]

\* a pass from the validity test on: piece is the dropped piece
PlacementOf(board, piece, x, rotation) ==
  IF ~isValidMove(piece, board) THEN NoPlacement
  ELSE ScoredPlacement(board, clearLines(addPieceToBoard(board, piece)), x, rotation)

\* one pass of the loop body: the placement at (x, rotation), if it is valid
PlacementAt(pieceType, board, x, rotation) ==
  PlacementOf(board, DropAt(pieceType, board, x, rotation), x, rotation)

\* bestPlacement is replaced only by a strictly lower score, so the loop ends with
\* the first of the passes of lowest score, or with null if no pass is valid
FirstLowest(passes) ==
  LET valid == {i \in 1..Len(passes) : passes[i].found}
  IN  IF valid = {} THEN NoPlacement
      ELSE passes[CHOOSE i \in valid :
                    \A k \in valid : \/ passes[i].score < passes[k].score
                                     \/ (passes[i].score = passes[k].score /\ i <= k)]

\* for rotation 0..3, for x = -3 .. BOARD_WIDTH + 2: pass i (from 1) has rotation
\* (i - 1) \div n and column ((i - 1) % n) - 3, n = BOARD_WIDTH + 6 the number of
\* columns tried
findBestPlacement(pieceType, board) ==
  FirstLowest(Array([i \in 1..(4 * (BOARD_WIDTH + 6)) |->
     PlacementAt(pieceType, board, ((i - 1) % (BOARD_WIDTH + 6)) - 3,
                 (i - 1) \div (BOARD_WIDTH + 6))]))

\* filledCells / totalCells < 0.08
isBoardMostlyEmpty(board) ==
  Cardinality({c \in (1..BOARD_WIDTH) \X (1..BOARD_HEIGHT) :
                 board[c[2]][c[1]] # Null}) * 100 < 8 * BOARD_WIDTH * BOARD_HEIGHT

\* filledInRow >= BOARD_WIDTH * 0.6
hasNearCompleteLine(board) ==
  \E y \in 1..BOARD_HEIGHT :
     Cardinality({x \in 1..BOARD_WIDTH : board[y][x] # Null}) * 10 >= BOARD_WIDTH * 6

\* Math.random() of the gates, in hundredths
RandomPercent(seed) == (seed * 7) % 100

\* none of the three random exits is taken
ReachesEvaluation(board, seed) ==
  /\ ~isBoardMostlyEmpty(board)
  /\ ~(~hasNearCompleteLine(board) /\ RandomPercent(seed) < 60)
  /\ ~(RandomPercent(seed) < 20)

\* the evaluation loop that never stores the score of the kind it has taken
RECURSIVE EvaluateKindsStaleBest(_, _, _)
EvaluateKindsStaleBest(board, i, best) ==
  IF i > Len(TETROMINO_TYPES) THEN best
  ELSE LET placement == findBestPlacement(TETROMINO_TYPES[i], board)
       IN  IF placement.found /\ (best.infinite \/ placement.score < best.bestScore)
           THEN EvaluateKindsStaleBest(board, i + 1,
                  [best EXCEPT !.bestPiece = TETROMINO_TYPES[i]])
           ELSE EvaluateKindsStaleBest(board, i + 1, best)

\* for (const pieceType of pieceTypes): best holds bestPiece and bestScore, infinite
\* while bestScore is Infinity
RECURSIVE EvaluateKinds(_, _, _)
EvaluateKinds(board, i, best) ==
  IF i > Len(TETROMINO_TYPES) THEN best
  ELSE LET placement == findBestPlacement(TETROMINO_TYPES[i], board)
       IN  IF placement.found /\ (best.infinite \/ placement.score < best.bestScore)
           THEN EvaluateKinds(board, i + 1,
                  [bestPiece |-> TETROMINO_TYPES[i], bestScore |-> placement.score,
                   infinite |-> FALSE])
           ELSE EvaluateKinds(board, i + 1, best)

\* selectOptimalPiece leaves by pieceTypes[Math.floor(Math.random() * 7)] when the
\* board is mostly empty or a gate draw of Math.random() falls below its threshold
\* (0.6 without a near-complete line, 0.2 otherwise), and evaluates the seven kinds
\* otherwise.  The gate draws of the seeds of the session model (Seeds) are all
\* below 0.2.
selectOptimalPiece(currentBoard, seed) ==
  IF ReachesEvaluation(currentBoard, seed)
  THEN EvaluateKinds(currentBoard, 1,
         [bestPiece |-> "T", bestScore |-> 0, infinite |-> TRUE]).bestPiece
  ELSE TETROMINO_TYPES[RandomInt(seed, Len(TETROMINO_TYPES)) + 1]

(***************************************************************************)
(* hooks/useGameLogic.ts: the session state                                *)
(***************************************************************************)
VARIABLES board, currentPiece, nextPieces, bag, heldPiece, canHold, ghostPiece,
          score, level, lines, highScore, gameState, dropSpeed, perfectPieceMode,
          last, drawn, holdUsed, cmdsLeft, drawsLeft

\* what the hook holds (useState, useRef)
session == <<board, currentPiece, nextPieces, bag, heldPiece, canHold, ghostPiece,
             score, level, lines, highScore, gameState, dropSpeed, perfectPieceMode>>

\* last: the handler that ran last and what it did; drawn: the kinds getNextPiece
\* has returned since the last resetGame; holdUsed: a hold has taken effect and no
\* lock has spawned a piece, and no reset has run, since; cmdsLeft, drawsLeft: what
\* is left of the command and draw bounds
vars == <<board, currentPiece, nextPieces, bag, heldPiece, canHold, ghostPiece,
          score, level, lines, highScore, gameState, dropSpeed, perfectPieceMode,
          last, drawn, holdUsed, cmdsLeft, drawsLeft>>

\* the state a handler's closure sees
Closure ==
  [board |-> board, currentPiece |-> currentPiece, nextPieces |-> nextPieces,
   bag |-> bag, heldPiece |-> heldPiece, canHold |-> canHold,
   ghostPiece |-> ghostPiece, score |-> score, level |-> level, lines |-> lines,
   highScore |-> highScore, gameState |-> gameState, dropSpeed |-> dropSpeed,
   perfectPieceMode |-> perfectPieceMode]

\* the render after a handler: every queued update applied
Render(s) ==
  /\ board' = s.board
  /\ currentPiece' = s.currentPiece
  /\ nextPieces' = s.nextPieces
  /\ bag' = s.bag
  /\ heldPiece' = s.heldPiece
  /\ canHold' = s.canHold
  /\ ghostPiece' = s.ghostPiece
  /\ score' = s.score
  /\ level' = s.level
  /\ lines' = s.lines
  /\ highScore' = s.highScore
  /\ gameState' = s.gameState
  /\ dropSpeed' = s.dropSpeed
  /\ perfectPieceMode' = s.perfectPieceMode

Did(op, ret, locked, cleared, kick, dist) ==
  [op |-> op, ret |-> ret, locked |-> locked, cleared |-> cleared, kick |-> kick,
   dist |-> dist]

\* a handler run that hands out a piece
Draws(r) == r.drew # Null

\* the random input of one handler run; a run that hands out no piece reads none
RunInputs(Handler(_)) == IF Draws(Handler(0)) THEN Seeds ELSE {0}

(***************************************************************************)
(* getNextPiece: the kind handed out, and the bag and preview it leaves    *)
(***************************************************************************)
\* getNextPiece publishing the preview before the shift
getNextPieceStalePreview(s, currentBoard, rnd) ==
  IF s.perfectPieceMode
  THEN [next |-> selectOptimalPiece(currentBoard, rnd), bag |-> s.bag,
        nextPieces |-> s.nextPieces]
  ELSE LET filled == IF Len(s.bag) = 0 THEN generateBag(rnd) ELSE s.bag
           rest == Tail(filled)
           refilled == IF Len(rest) < PREVIEW_PIECES + 1
                       THEN rest \o generateBag(rnd) ELSE rest
       IN  [next |-> Head(filled), bag |-> refilled,
            nextPieces |-> SubSeq(filled, 1, PREVIEW_PIECES)]

\* getNextPiece reading the head of the bag without the shift
getNextPiecePeek(s, currentBoard, rnd) ==
  IF s.perfectPieceMode
  THEN [next |-> selectOptimalPiece(currentBoard, rnd), bag |-> s.bag,
        nextPieces |-> s.nextPieces]
  ELSE LET filled == IF Len(s.bag) = 0 THEN generateBag(rnd) ELSE s.bag
       IN  [next |-> Head(filled), bag |-> filled,
            nextPieces |-> SubSeq(filled, 1, PREVIEW_PIECES)]

getNextPiece(s, currentBoard, rnd) ==
  IF s.perfectPieceMode
  THEN [next |-> selectOptimalPiece(currentBoard, rnd), bag |-> s.bag,
        nextPieces |-> s.nextPieces]
  ELSE LET filled == IF Len(s.bag) = 0 THEN generateBag(rnd) ELSE s.bag
           rest == Tail(filled)
           refilled == IF Len(rest) < PREVIEW_PIECES + 1
                       THEN rest \o generateBag(rnd) ELSE rest
       IN  [next |-> Head(filled), bag |-> refilled,
            nextPieces |-> SubSeq(refilled, 1, PREVIEW_PIECES)]

\* updateGhostPiece reads the board of the closure
updateGhostPiece(s, piece) == getGhostPiecePosition(piece, s.board)

(***************************************************************************)
(* movePiece(dx, dy): state is the closure state with movePiece's updates  *)
(* applied, points what its setScore updater adds, ret its return value    *)
(***************************************************************************)
\* the spawn test made on the board of the closure instead of the cleared board
SpawnNextOnClosureBoard(s, s1, newPiece, clearedBoard) ==
  IF ~isValidMove(newPiece, s.board)
  THEN [s1 EXCEPT !.gameState = "GAME_OVER",
                  !.highScore = IF s.score > s.highScore THEN s.score ELSE @]
  ELSE [s1 EXCEPT !.currentPiece = newPiece,
                  !.ghostPiece = updateGhostPiece(s, newPiece),
                  !.canHold = TRUE]

\* the end of the lock branch: s1 is the closure state with the updates queued so
\* far; the new piece ends the game if it has no room on the cleared board and
\* becomes the active piece otherwise
SpawnNext(s, s1, newPiece, clearedBoard) ==
  IF ~isValidMove(newPiece, clearedBoard)
  THEN [s1 EXCEPT !.gameState = "GAME_OVER",
                  !.highScore = IF s.score > s.highScore THEN s.score ELSE @]
  ELSE [s1 EXCEPT !.currentPiece = newPiece,
                  !.ghostPiece = updateGhostPiece(s, newPiece),
                  !.canHold = TRUE]

\* the lock branch storing the board with the piece, full rows included
LockPieceKeepsFullRows(s, rnd) ==
  LET newBoard == addPieceToBoard(s.board, s.currentPiece)
      cl == clearLines(newBoard)
      clearedBoard == cl.newBoard
      linesCleared == cl.linesCleared
      points == IF linesCleared > 0 THEN calculateScore(linesCleared, s.level) ELSE 0
      newLines == s.lines + linesCleared
      newLevel == calculateLevel(newLines)
      levelUp == linesCleared > 0 /\ newLevel # s.level
      nx == getNextPiece(s, clearedBoard, rnd)
      newPiece == generateNewPiece(nx.next)
      s1 == [s EXCEPT !.lines = newLines,
                      !.level = IF levelUp THEN newLevel ELSE @,
                      !.dropSpeed = IF levelUp THEN calculateSpeed(newLevel) ELSE @,
                      !.board = newBoard,
                      !.bag = nx.bag,
                      !.nextPieces = nx.nextPieces]
  IN  [state |-> SpawnNext(s, s1, newPiece, clearedBoard), points |-> points, ret |-> FALSE, locked |-> TRUE,
       cleared |-> linesCleared, drew |-> nx.next]

LockPiece(s, rnd) ==
  LET newBoard == addPieceToBoard(s.board, s.currentPiece)
      cl == clearLines(newBoard)
      clearedBoard == cl.newBoard
      linesCleared == cl.linesCleared
      points == IF linesCleared > 0 THEN calculateScore(linesCleared, s.level) ELSE 0
      newLines == s.lines + linesCleared
      newLevel == calculateLevel(newLines)
      levelUp == linesCleared > 0 /\ newLevel # s.level
      nx == getNextPiece(s, clearedBoard, rnd)
      newPiece == generateNewPiece(nx.next)
      s1 == [s EXCEPT !.lines = newLines,
                      !.level = IF levelUp THEN newLevel ELSE @,
                      !.dropSpeed = IF levelUp THEN calculateSpeed(newLevel) ELSE @,
                      !.board = clearedBoard,
                      !.bag = nx.bag,
                      !.nextPieces = nx.nextPieces]
  IN  [state |-> SpawnNext(s, s1, newPiece, clearedBoard), points |-> points, ret |-> FALSE, locked |-> TRUE,
       cleared |-> linesCleared, drew |-> nx.next]

\* movePiece lifting a piece that cannot descend back to the top row, never locking
movePieceRisesAgain(s, dx, dy, rnd) ==
  LET noChange == [state |-> s, points |-> 0, ret |-> FALSE, locked |-> FALSE,
                   cleared |-> 0, drew |-> Null]
  IN  IF s.currentPiece = NoPiece \/ s.gameState # "PLAYING" THEN noChange
      ELSE LET movedPiece == MoveTo(s.currentPiece, s.currentPiece.position.x + dx,
                                    s.currentPiece.position.y + dy)
               liftedPiece == MoveTo(s.currentPiece, s.currentPiece.position.x, 0)
           IN  IF isValidMove(movedPiece, s.board)
               THEN [noChange EXCEPT
                       !.state = [s EXCEPT !.currentPiece = movedPiece,
                                           !.ghostPiece = updateGhostPiece(s, movedPiece)],
                       !.ret = TRUE]
               ELSE IF dy > 0
               THEN [noChange EXCEPT !.state = [s EXCEPT !.currentPiece = liftedPiece]]
               ELSE noChange

\* movePiece guarded by the piece alone, not by the phase
movePieceAnyPhase(s, dx, dy, rnd) ==
  LET noChange == [state |-> s, points |-> 0, ret |-> FALSE, locked |-> FALSE,
                   cleared |-> 0, drew |-> Null]
  IN  IF s.currentPiece = NoPiece THEN noChange
      ELSE LET movedPiece == MoveTo(s.currentPiece, s.currentPiece.position.x + dx,
                                    s.currentPiece.position.y + dy)
           IN  IF isValidMove(movedPiece, s.board)
               THEN [noChange EXCEPT
                       !.state = [s EXCEPT !.currentPiece = movedPiece,
                                           !.ghostPiece = updateGhostPiece(s, movedPiece)],
                       !.ret = TRUE]
               ELSE IF dy > 0 THEN LockPiece(s, rnd)
               ELSE noChange

movePiece(s, dx, dy, rnd) ==
  LET noChange == [state |-> s, points |-> 0, ret |-> FALSE, locked |-> FALSE,
                   cleared |-> 0, drew |-> Null]
  IN  IF s.currentPiece = NoPiece \/ s.gameState # "PLAYING" THEN noChange
      ELSE LET movedPiece == MoveTo(s.currentPiece, s.currentPiece.position.x + dx,
                                    s.currentPiece.position.y + dy)
           IN  IF isValidMove(movedPiece, s.board)
               THEN [noChange EXCEPT
                       !.state = [s EXCEPT !.currentPiece = movedPiece,
                                           !.ghostPiece = updateGhostPiece(s, movedPiece)],
                       !.ret = TRUE]
               ELSE IF dy > 0 THEN LockPiece(s, rnd)
               ELSE noChange

(***************************************************************************)
(* rotatePiece                                                             *)
(***************************************************************************)
Kicked(rotatedPiece, kick) ==
  MoveTo(rotatedPiece, rotatedPiece.position.x + kick[1],
         rotatedPiece.position.y + kick[2])

\* the kick loop without its return: the last valid kick wins
RECURSIVE LastValidKick(_, _, _, _)
LastValidKick(rotatedPiece, kicks, brd, i) ==
  IF i > Len(kicks) THEN 0
  ELSE LET later == LastValidKick(rotatedPiece, kicks, brd, i + 1)
       IN  IF later # 0 THEN later
           ELSE IF isValidMove(Kicked(rotatedPiece, kicks[i]), brd) THEN i
           ELSE 0

\* for (const kick of kicks): the index of the first kick that is a valid move,
\* 0 when the loop ends without one
RECURSIVE FirstValidKick(_, _, _, _)
FirstValidKick(rotatedPiece, kicks, brd, i) ==
  IF i > Len(kicks) THEN 0
  ELSE IF isValidMove(Kicked(rotatedPiece, kicks[i]), brd) THEN i
  ELSE FirstValidKick(rotatedPiece, kicks, brd, i + 1)

rotatePiece(s) ==
  IF s.currentPiece = NoPiece \/ s.gameState # "PLAYING"
  THEN [state |-> s, kick |-> 0]
  ELSE LET newRotation == (s.currentPiece.rotation + 1) % 4
           rotatedPiece == [s.currentPiece EXCEPT !.rotation = newRotation]
           kicks == getWallKicks(s.currentPiece, s.currentPiece.rotation)
           k == FirstValidKick(rotatedPiece, kicks, s.board, 1)
       IN  IF k = 0 THEN [state |-> s, kick |-> 0]
           ELSE LET kickedPiece == Kicked(rotatedPiece, kicks[k])
                IN  [state |-> [s EXCEPT !.currentPiece = kickedPiece,
                                         !.ghostPiece = updateGhostPiece(s, kickedPiece)],
                     kick |-> k]

(***************************************************************************)
(* hardDrop, softDropStep                                                  *)
(***************************************************************************)
\* while (isValidMove(piece at newY + 1)) { newY++; dropDistance++ }
RECURSIVE DropDistance(_, _, _)
DropDistance(piece, brd, dropDistance) ==
  IF isValidMove(MoveTo(piece, piece.position.x,
                        piece.position.y + dropDistance + 1), brd)
  THEN DropDistance(piece, brd, dropDistance + 1)
  ELSE dropDistance

\* hardDrop paying POINTS.HARD_DROP once, whatever the distance
hardDropFlatBonus(s, rnd) ==
  IF s.currentPiece = NoPiece \/ s.gameState # "PLAYING"
  THEN [state |-> s, points |-> 0, ret |-> FALSE, locked |-> FALSE, cleared |-> 0,
        drew |-> Null, dist |-> 0]
  ELSE LET dropDistance == DropDistance(s.currentPiece, s.board, 0)
           m == movePiece(s, 0, dropDistance, rnd)
       IN  [state |-> m.state, points |-> POINTS_HARD_DROP + m.points,
            ret |-> m.ret, locked |-> m.locked, cleared |-> m.cleared,
            drew |-> m.drew, dist |-> dropDistance]

hardDrop(s, rnd) ==
  IF s.currentPiece = NoPiece \/ s.gameState # "PLAYING"
  THEN [state |-> s, points |-> 0, ret |-> FALSE, locked |-> FALSE, cleared |-> 0,
        drew |-> Null, dist |-> 0]
  ELSE LET dropDistance == DropDistance(s.currentPiece, s.board, 0)
           m == movePiece(s, 0, dropDistance, rnd)
       IN  [state |-> m.state, points |-> dropDistance * POINTS_HARD_DROP + m.points,
            ret |-> m.ret, locked |-> m.locked, cleared |-> m.cleared,
            drew |-> m.drew, dist |-> dropDistance]

\* softDropStep paying the bonus whether or not the piece moved
softDropStepAlwaysPays(s, rnd) ==
  LET m == movePiece(s, 0, 1, rnd)
  IN  [m EXCEPT !.points = @ + POINTS_SOFT_DROP]

softDropStep(s, rnd) ==
  LET m == movePiece(s, 0, 1, rnd)
  IN  [m EXCEPT !.points = IF m.ret THEN @ + POINTS_SOFT_DROP ELSE @]

(***************************************************************************)
(* holdPiece                                                               *)
(***************************************************************************)
\* holdPiece without the canHold test
holdPieceUnguarded(s, rnd) ==
  IF s.currentPiece = NoPiece \/ s.gameState # "PLAYING"
  THEN [state |-> s, ret |-> FALSE, drew |-> Null]
  ELSE LET fromHold == s.heldPiece # Null
           nx == getNextPiece(s, s.board, rnd)
           newCurrentPiece == generateNewPiece(IF fromHold THEN s.heldPiece ELSE nx.next)
       IN  [state |-> [s EXCEPT !.bag = IF fromHold THEN @ ELSE nx.bag,
                                !.nextPieces = IF fromHold THEN @ ELSE nx.nextPieces,
                                !.heldPiece = s.currentPiece.type,
                                !.currentPiece = newCurrentPiece,
                                !.ghostPiece = updateGhostPiece(s, newCurrentPiece),
                                !.canHold = FALSE],
            ret |-> TRUE,
            drew |-> IF fromHold THEN Null ELSE nx.next]

\* holdPiece asking the supply for a kind whether or not a kind is held
holdPieceAlwaysDraws(s, rnd) ==
  IF s.currentPiece = NoPiece \/ ~s.canHold \/ s.gameState # "PLAYING"
  THEN [state |-> s, ret |-> FALSE, drew |-> Null]
  ELSE LET pieceToHold == s.currentPiece.type
           nx == getNextPiece(s, s.board, rnd)
           newCurrentPiece == generateNewPiece(nx.next)
       IN  [state |-> [s EXCEPT !.bag = nx.bag,
                                !.nextPieces = nx.nextPieces,
                                !.heldPiece = pieceToHold,
                                !.currentPiece = newCurrentPiece,
                                !.ghostPiece = updateGhostPiece(s, newCurrentPiece),
                                !.canHold = FALSE],
            ret |-> TRUE,
            drew |-> nx.next]

holdPiece(s, rnd) ==
  IF s.currentPiece = NoPiece \/ ~s.canHold \/ s.gameState # "PLAYING"
  THEN [state |-> s, ret |-> FALSE, drew |-> Null]
  ELSE LET pieceToHold == s.currentPiece.type
           nx == getNextPiece(s, s.board, rnd)
           fromHold == s.heldPiece # Null
           newCurrentPiece == generateNewPiece(IF fromHold THEN s.heldPiece ELSE nx.next)
       IN  [state |-> [s EXCEPT !.bag = IF fromHold THEN @ ELSE nx.bag,
                                !.nextPieces = IF fromHold THEN @ ELSE nx.nextPieces,
                                !.heldPiece = pieceToHold,
                                !.currentPiece = newCurrentPiece,
                                !.ghostPiece = updateGhostPiece(s, newCurrentPiece),
                                !.canHold = FALSE],
            ret |-> TRUE,
            drew |-> IF fromHold THEN Null ELSE nx.next]

(***************************************************************************)
(* resetGame, pauseGame, togglePerfectPieceMode                            *)
(***************************************************************************)
\* resetGame without setHeldPiece(null)
resetGameKeepsHold(s, rnd) ==
  LET emptyBoard == createEmptyBoard
      fresh == generateBag(rnd)
      bagRef == IF Len(fresh) < PREVIEW_PIECES + 1
                THEN fresh \o generateBag(rnd) ELSE fresh
      s0 == [s EXCEPT !.bag = bagRef,
                      !.nextPieces = SubSeq(bagRef, 1, PREVIEW_PIECES)]
      nx == getNextPiece(s0, emptyBoard, rnd)
      firstPiece == generateNewPiece(nx.next)
  IN  [state |-> [s0 EXCEPT !.bag = nx.bag,
                            !.nextPieces = nx.nextPieces,
                            !.board = emptyBoard,
                            !.score = 0,
                            !.level = 1,
                            !.lines = 0,
                            !.canHold = TRUE,
                            !.gameState = "PLAYING",
                            !.dropSpeed = INITIAL_SPEED,
                            !.currentPiece = firstPiece,
                            !.ghostPiece = getGhostPiecePosition(firstPiece, emptyBoard)],
       drew |-> nx.next]

resetGame(s, rnd) ==
  LET emptyBoard == createEmptyBoard
      fresh == generateBag(rnd)
      bagRef == IF Len(fresh) < PREVIEW_PIECES + 1
                THEN fresh \o generateBag(rnd) ELSE fresh
      s0 == [s EXCEPT !.bag = bagRef,
                      !.nextPieces = SubSeq(bagRef, 1, PREVIEW_PIECES)]
      nx == getNextPiece(s0, emptyBoard, rnd)
      firstPiece == generateNewPiece(nx.next)
  IN  [state |-> [s0 EXCEPT !.bag = nx.bag,
                            !.nextPieces = nx.nextPieces,
                            !.board = emptyBoard,
                            !.score = 0,
                            !.level = 1,
                            !.lines = 0,
                            !.heldPiece = Null,
                            !.canHold = TRUE,
                            !.gameState = "PLAYING",
                            !.dropSpeed = INITIAL_SPEED,
                            !.currentPiece = firstPiece,
                            !.ghostPiece = getGhostPiecePosition(firstPiece, emptyBoard)],
       drew |-> nx.next]

pauseGame(s) ==
  [s EXCEPT !.gameState = IF @ = "PLAYING" THEN "PAUSED" ELSE "PLAYING"]

\* the new flag gives getNextPiece, and with it resetGame, a new identity: the effect
\* that depends on resetGame runs again
togglePerfectPieceMode(s, rnd) ==
  resetGame([s EXCEPT !.perfectPieceMode = ~@], rnd)

(***************************************************************************)
(* The session as a state machine                                          *)
(***************************************************************************)
\* the useState and useRef initial values, before the mount effect has run
Constructed(cmds, draws) ==
  /\ board = createEmptyBoard
  /\ currentPiece = NoPiece
  /\ nextPieces = <<>>
  /\ bag = <<>>
  /\ heldPiece = Null
  /\ canHold = TRUE
  /\ ghostPiece = NoPiece
  /\ score = 0
  /\ level = 1
  /\ lines = 0
  /\ highScore = 0
  /\ gameState = "INITIAL"
  /\ dropSpeed = INITIAL_SPEED
  /\ perfectPieceMode = FALSE
  /\ last = Did("init", FALSE, FALSE, 0, 0, 0)
  /\ drawn = <<>>
  /\ holdUsed = FALSE
  /\ cmdsLeft = cmds
  /\ drawsLeft = draws

InitMount == Constructed(MaxCmds, MaxDraws)

(***************************************************************************)
(* Sessions in progress.  Each is a state of an assist-mode session that   *)
(* was handed I pieces only, or I, O and T pieces (the selector can return *)
(* any kind on any board), taken after a move of the active piece, which   *)
(* leaves the ghost as the projection on the board.                        *)
(*                                                                         *)
(* Line clears: ten upright I pieces side by side clear four rows and      *)
(* empty the board (4 lines a round).  On the empty board, I flat on       *)
(* columns 0-3 and 4-7 and I upright in columns 9 and 8 clear one row and  *)
(* leave columns 8 and 9 three high; each further pair of flat I pieces on *)
(* columns 0-3 and 4-7 clears one more row and lowers the two columns by   *)
(* one.  The state is taken with the first I of a pair locked and the      *)
(* second falling over columns 4-7; score is what those clears paid.       *)
(*                                                                         *)
(* Top-out: eighteen I pieces dropped where they spawn fill columns 3-6 of *)
(* rows 2-19; the nineteenth is at its spawn position.                     *)
(*                                                                         *)
(* Top-out with a clear: pieces that fell by gravity alone (no points)     *)
(* left column 3 empty: upright I pieces fill columns 0-2 to the top, flat *)
(* I pieces columns 6-9 of rows 1-19, O pieces columns 4-5 of rows 2-19.   *)
(* A T piece is at its spawn position, where it rests on the O pieces and  *)
(* completes row 1.                                                        *)
(***************************************************************************)
InProgress ==
  {[lines |-> 9, level |-> 1, dropSpeed |-> 1000, score |-> 1700, stack |-> 3],
   [lines |-> 10, level |-> 2, dropSpeed |-> 950, score |-> 1800, stack |-> 2],
   [lines |-> 189, level |-> 19, dropSpeed |-> 100, score |-> 370700, stack |-> 3]}

BoardOf(Filled(_, _)) ==
  Array([y \in 1..BOARD_HEIGHT |->
    Array([x \in 1..BOARD_WIDTH |-> IF Filled(x - 1, y - 1) THEN "I" ELSE Null])])

LineClearBoard(stack) ==
  BoardOf(LAMBDA x, y : \/ (y = BOARD_HEIGHT - 1 /\ x <= 3)
                        \/ (x >= BOARD_WIDTH - 2 /\ y >= BOARD_HEIGHT - stack))

TopOutBoard == BoardOf(LAMBDA x, y : y >= 2 /\ x >= 3 /\ x <= 6)

TopClearBoard ==
  Array([y \in 1..BOARD_HEIGHT |->
    Array([x \in 1..BOARD_WIDTH |->
      IF x - 1 <= 2 \/ (x - 1 >= 6 /\ y - 1 >= 1) THEN "I"
      ELSE IF x - 1 \in {4, 5} /\ y - 1 >= 2 THEN "O"
      ELSE Null])])

ResumedHolding(brd, piece, held, g, cmds, draws) ==
  /\ board = brd
  /\ currentPiece = piece
  /\ ghostPiece = getGhostPiecePosition(piece, brd)
  /\ bag = TETROMINO_TYPES
  /\ nextPieces = SubSeq(TETROMINO_TYPES, 1, PREVIEW_PIECES)
  /\ heldPiece = held
  /\ canHold = TRUE
  /\ score = g.score
  /\ level = g.level
  /\ lines = g.lines
  /\ highScore = 0
  /\ gameState = "PLAYING"
  /\ dropSpeed = g.dropSpeed
  /\ perfectPieceMode = TRUE
  /\ last = Did("resume", TRUE, FALSE, 0, 0, 0)
  /\ drawn = <<>>
  /\ holdUsed = FALSE
  /\ cmdsLeft = cmds
  /\ drawsLeft = draws

Resumed(brd, piece, g, cmds, draws) ==
  ResumedHolding(brd, piece, Null, g, cmds, draws)

InitLineClear ==
  \E g \in InProgress :
     Resumed(LineClearBoard(g.stack), Tetromino("I", 4, 16, 0), g, ResumeCmds,
              ResumeDraws)

InitTopOut ==
  Resumed(TopOutBoard, generateNewPiece("I"),
          [lines |-> 0, level |-> 1, dropSpeed |-> INITIAL_SPEED, score |-> 0],
          TopOutCmds, ResumeDraws)

InitTopClear ==
  Resumed(TopClearBoard, generateNewPiece("T"),
          [lines |-> 0, level |-> 1, dropSpeed |-> INITIAL_SPEED, score |-> 0],
          MaxCmds, MaxDraws)

\* the first piece, an I, was held; the second, an I, fell by gravity and locked
\* on the floor where it spawned; the third, a T, is at its spawn position
FirstLockBoard == BoardOf(LAMBDA x, y : y = BOARD_HEIGHT - 1 /\ x >= 3 /\ x <= 6)

InitHeld ==
  ResumedHolding(FirstLockBoard, generateNewPiece("T"), "I",
                 [lines |-> 0, level |-> 1, dropSpeed |-> INITIAL_SPEED, score |-> 0],
                 MaxCmds, ResumeDraws)

Mounted == last.op # "init"

Supply(r, sinceReset) ==
  /\ Draws(r) => drawsLeft > 0
  /\ drawsLeft' = IF Draws(r) THEN drawsLeft - 1 ELSE drawsLeft
  /\ drawn' = IF Draws(r) THEN Append(sinceReset, r.drew) ELSE sinceReset

\* a lock that spawned the next piece ends the hold window
Spawned(r) == r.locked /\ r.state.gameState # "GAME_OVER"

Command ==
  /\ Mounted
  /\ cmdsLeft > 0
  /\ cmdsLeft' = cmdsLeft - 1

\* useEffect(() => resetGame(), [resetGame]) on mount
Mount ==
  /\ ~Mounted
  /\ \E rnd \in Seeds :
       \E r \in {resetGame(Closure, rnd)} :
           /\ \E s \in {r.state} : Render(s)
           /\ Supply(r, <<>>)
           /\ last' = Did("mount", TRUE, FALSE, 0, 0, 0)
           /\ holdUsed' = FALSE
  /\ UNCHANGED cmdsLeft

\* useInterval(() => movePiece(0, 1), gameState === "PLAYING" ? dropSpeed : null)
Tick ==
  /\ Mounted
  /\ gameState = "PLAYING"
  /\ \E rnd \in RunInputs(LAMBDA rn : movePiece(Closure, 0, 1, rn)) :
       \E r \in {movePiece(Closure, 0, 1, rnd)} :
           /\ \E s \in {[r.state EXCEPT !.score = @ + r.points]} : Render(s)
           /\ Supply(r, drawn)
           /\ last' = Did("tick", r.ret, r.locked, r.cleared, 0, 0)
           /\ holdUsed' = (holdUsed /\ ~Spawned(r))
  /\ UNCHANGED cmdsLeft

\* onMoveLeft: movePiece(-1, 0); onMoveRight: movePiece(1, 0)
Move(op, dx) ==
  /\ Command
  /\ \E rnd \in RunInputs(LAMBDA rn : movePiece(Closure, dx, 0, rn)) :
       \E r \in {movePiece(Closure, dx, 0, rnd)} :
           /\ \E s \in {[r.state EXCEPT !.score = @ + r.points]} : Render(s)
           /\ Supply(r, drawn)
           /\ last' = Did(op, r.ret, r.locked, r.cleared, 0, 0)
           /\ holdUsed' = (holdUsed /\ ~Spawned(r))

MoveLeft == Move("moveLeft", -1)

MoveRight == Move("moveRight", 1)

SoftDrop ==
  /\ Command
  /\ \E rnd \in RunInputs(LAMBDA rn : softDropStep(Closure, rn)) :
       \E r \in {softDropStep(Closure, rnd)} :
           /\ \E s \in {[r.state EXCEPT !.score = @ + r.points]} : Render(s)
           /\ Supply(r, drawn)
           /\ last' = Did("softDrop", r.ret, r.locked, r.cleared, 0, 0)
           /\ holdUsed' = (holdUsed /\ ~Spawned(r))

Rotate ==
  /\ Command
  /\ \E r \in {rotatePiece(Closure)} :
         /\ \E s \in {r.state} : Render(s)
         /\ last' = Did("rotate", r.kick # 0, FALSE, 0, r.kick, 0)
  /\ UNCHANGED <<drawn, holdUsed, drawsLeft>>

HardDrop ==
  /\ Command
  /\ \E rnd \in RunInputs(LAMBDA rn : hardDrop(Closure, rn)) :
       \E r \in {hardDrop(Closure, rnd)} :
           /\ \E s \in {[r.state EXCEPT !.score = @ + r.points]} : Render(s)
           /\ Supply(r, drawn)
           /\ last' = Did("hardDrop", r.ret, r.locked, r.cleared, 0, r.dist)
           /\ holdUsed' = (holdUsed /\ ~Spawned(r))

Hold ==
  /\ Command
  /\ \E rnd \in RunInputs(LAMBDA rn : holdPiece(Closure, rn)) :
       \E r \in {holdPiece(Closure, rnd)} :
           /\ \E s \in {r.state} : Render(s)
           /\ Supply(r, drawn)
           /\ last' = Did("hold", r.ret, FALSE, 0, 0, 0)
           /\ holdUsed' = (holdUsed \/ r.ret)

Reset ==
  /\ Command
  /\ \E rnd \in Seeds :
       \E r \in {resetGame(Closure, rnd)} :
           /\ \E s \in {r.state} : Render(s)
           /\ Supply(r, <<>>)
           /\ last' = Did("reset", TRUE, FALSE, 0, 0, 0)
           /\ holdUsed' = FALSE

Pause ==
  /\ Command
  /\ \E s \in {pauseGame(Closure)} : Render(s)
  /\ last' = Did("pause", TRUE, FALSE, 0, 0, 0)
  /\ UNCHANGED <<drawn, holdUsed, drawsLeft>>

Toggle ==
  /\ Command
  /\ \E rnd \in Seeds :
       \E r \in {togglePerfectPieceMode(Closure, rnd)} :
           /\ \E s \in {r.state} : Render(s)
           /\ Supply(r, <<>>)
           /\ last' = Did("toggle", TRUE, FALSE, 0, 0, 0)
           /\ holdUsed' = FALSE

Init == InitMount \/ InitLineClear \/ InitTopOut \/ InitTopClear \/ InitHeld

Next ==
  \/ Mount
  \/ Tick
  \/ MoveLeft
  \/ MoveRight
  \/ SoftDrop
  \/ Rotate
  \/ HardDrop
  \/ Hold
  \/ Reset
  \/ Pause
  \/ Toggle

Spec == Init /\ [][Next]_vars

\* the fair bag followed over its first refill and the end of its first seven draws
InitBag == Constructed(MaxCmds, BagDraws)

SpecBag == InitBag /\ [][Next]_vars

(***************************************************************************)
(* The rules of lib/utils.ts on their own: isValidMove tried on pieces in  *)
(* and around the boards below, clearLines applied to them                 *)
(***************************************************************************)
\* boards the session hands to the rules: the boards of the sessions in progress,
\* and those boards with the falling piece merged where it lands (one full row at
\* the bottom; four full rows where ten upright I pieces stand side by side)
FourRowsBoard == BoardOf(LAMBDA x, y : y >= BOARD_HEIGHT - 4)

\* two full rows with rows that stay between, above and below them
StaggeredBoard ==
  BoardOf(LAMBDA x, y : \/ y = BOARD_HEIGHT - 4
                        \/ y = BOARD_HEIGHT - 2
                        \/ (y = BOARD_HEIGHT - 5 /\ x <= 1)
                        \/ (y = BOARD_HEIGHT - 3 /\ x <= 5)
                        \/ (y = BOARD_HEIGHT - 1 /\ x >= 2))

RuleBoards ==
  {createEmptyBoard, TopOutBoard, LineClearBoard(3), FourRowsBoard, StaggeredBoard,
   addPieceToBoard(LineClearBoard(3), Tetromino("I", 4, 18, 0)),
   addPieceToBoard(LineClearBoard(2), Tetromino("I", 4, 18, 0))}

ProbeXs == (0 - ProbeMargin)..(BOARD_WIDTH - 1)

ProbeYs == (0 - ProbeMargin)..(BOARD_HEIGHT - 1)

InitRules ==
  /\ board \in RuleBoards
  /\ currentPiece \in {generateNewPiece(t) : t \in Kinds}
  /\ nextPieces = <<>>
  /\ bag = <<>>
  /\ heldPiece = Null
  /\ canHold = TRUE
  /\ ghostPiece = NoPiece
  /\ score = 0
  /\ level = 1
  /\ lines = 0
  /\ highScore = 0
  /\ gameState = "INITIAL"
  /\ dropSpeed = INITIAL_SPEED
  /\ perfectPieceMode = FALSE
  /\ last = Did("init", FALSE, FALSE, 0, 0, 0)
  /\ drawn = <<>>
  /\ holdUsed = FALSE
  /\ cmdsLeft = 0
  /\ drawsLeft = 0

RulesFrame ==
  UNCHANGED <<nextPieces, bag, heldPiece, canHold, ghostPiece, score, level, lines,
              highScore, gameState, dropSpeed, perfectPieceMode, drawn, holdUsed,
              cmdsLeft, drawsLeft>>

\* isValidMove(piece, board) for the piece one cell away
ProbeShift ==
  /\ \E d \in {<<-1, 0>>, <<1, 0>>, <<0, 1>>, <<0, -1>>} :
       \E piece \in {MoveTo(currentPiece, currentPiece.position.x + d[1],
                             currentPiece.position.y + d[2])} :
           /\ piece.position.x \in ProbeXs
           /\ piece.position.y \in ProbeYs
           /\ currentPiece' = piece
           /\ last' = Did("probe", isValidMove(piece, board), FALSE, 0, 0, 0)
  /\ UNCHANGED board
  /\ RulesFrame

\* isValidMove(piece, board) for the piece turned once
ProbeTurn ==
  /\ \E piece \in {[currentPiece EXCEPT !.rotation = (@ + 1) % 4]} :
         /\ currentPiece' = piece
         /\ last' = Did("probe", isValidMove(piece, board), FALSE, 0, 0, 0)
  /\ UNCHANGED board
  /\ RulesFrame

\* clearLines(board)
ClearRows ==
  /\ \E r \in {clearLines(board)} :
         /\ board' = r.newBoard
         /\ last' = Did("clear", r.linesCleared > 0, FALSE, r.linesCleared, 0, 0)
  /\ UNCHANGED currentPiece
  /\ RulesFrame

NextRules ==
  \/ ProbeShift
  \/ ProbeTurn
  \/ ClearRows

SpecRules == InitRules /\ [][NextRules]_vars

(***************************************************************************)
(* The selector on its own: a piece is dropped somewhere on the board, and *)
(* selectOptimalPiece chooses the next kind for the board that results     *)
(***************************************************************************)
\* four flat I pieces in the two bottom rows: two rows two cells short of full
NearLineBoard == BoardOf(LAMBDA x, y : y >= BOARD_HEIGHT - 2 /\ x <= 7)

SelectBoards == {NearLineBoard, TopOutBoard}

\* draws of Math.random() below both gates (0.00), between them (0.21) and above
\* both (0.63)
SelectSeeds == {0, 3, 9}

InitSelect ==
  /\ board \in SelectBoards
  /\ currentPiece \in {generateNewPiece(t) : t \in {TETROMINO_TYPES[k] : k \in 1..SelectKinds}}
  /\ nextPieces = <<>>
  /\ bag = <<>>
  /\ heldPiece = Null
  /\ canHold = TRUE
  /\ ghostPiece = NoPiece
  /\ score = 0
  /\ level = 1
  /\ lines = 0
  /\ highScore = 0
  /\ gameState = "PLAYING"
  /\ dropSpeed = INITIAL_SPEED
  /\ perfectPieceMode = TRUE
  /\ last = Did("init", FALSE, FALSE, 0, 0, 0)
  /\ drawn = <<>>
  /\ holdUsed = FALSE
  /\ cmdsLeft = 0
  /\ drawsLeft = SelectRounds

\* the active piece comes to rest in some column and rotation, the rows it
\* completes are cleared, and selectOptimalPiece(clearedBoard) gives the next kind;
\* last.ret tells whether the selector evaluated the kinds
PlaceAndSelect ==
  /\ drawsLeft > 0
  /\ \E rotation \in 0..3, x \in (0 - 3)..(BOARD_WIDTH + 2), rnd \in SelectSeeds :
       \E piece \in {DropAt(currentPiece.type, board, x, rotation)} :
           /\ isValidMove(piece, board)
           /\ \E r \in {clearLines(addPieceToBoard(board, piece))} :
                  /\ board' = r.newBoard
                  /\ currentPiece' =
                        generateNewPiece(selectOptimalPiece(r.newBoard, rnd))
                  /\ last' = Did("select", ReachesEvaluation(r.newBoard, rnd), TRUE,
                                 r.linesCleared, 0, 0)
  /\ drawsLeft' = drawsLeft - 1
  /\ UNCHANGED <<nextPieces, bag, heldPiece, canHold, ghostPiece, score, level, lines,
                 highScore, gameState, dropSpeed, perfectPieceMode, drawn, holdUsed,
                 cmdsLeft>>

NextSelect == PlaceAndSelect

SpecSelect == InitSelect /\ [][NextSelect]_vars

(***************************************************************************)
(* The placement evaluator on its own: one pass of findBestPlacement        *)
(***************************************************************************)
\* O pieces stacked in columns 0 and 1 up to row 2 and an S piece locked on top of
\* them in rows 0 and 1, its cell (2, 0) over the empty column 2
OverhangBoard ==
  BoardOf(LAMBDA x, y : \/ (x <= 1 /\ y >= 2)
                        \/ (y = 1 /\ x <= 1)
                        \/ (y = 0 /\ x \in {1, 2}))

PlaceBoards == {OverhangBoard, NearLineBoard}

InitPlace ==
  /\ board \in PlaceBoards
  /\ currentPiece = NoPiece
  /\ nextPieces = <<>>
  /\ bag = <<>>
  /\ heldPiece = Null
  /\ canHold = TRUE
  /\ ghostPiece = NoPiece
  /\ score = 0
  /\ level = 1
  /\ lines = 0
  /\ highScore = 0
  /\ gameState = "PLAYING"
  /\ dropSpeed = INITIAL_SPEED
  /\ perfectPieceMode = TRUE
  /\ last = Did("init", FALSE, FALSE, 0, 0, 0)
  /\ drawn = <<>>
  /\ holdUsed = FALSE
  /\ cmdsLeft = 0
  /\ drawsLeft = 0

\* one pass of the loops of findBestPlacement: currentPiece is the piece created at
\* row 0, ghostPiece the piece after the drop loop, last.ret whether the pass gave
\* a placement
Place ==
  /\ last.op = "init"
  /\ \E pieceType \in Kinds, rotation \in 0..3, x \in (0 - 3)..(BOARD_WIDTH + 2) :
       \E placement \in {PlacementAt(pieceType, board, x, rotation)} :
           /\ currentPiece' = [generateNewPiece(pieceType) EXCEPT
                                 !.rotation = rotation,
                                 !.position = [x |-> x, y |-> 0]]
           /\ ghostPiece' = DropAt(pieceType, board, x, rotation)
           /\ last' = Did("place", placement.found, FALSE, placement.linesCleared, 0, 0)
  /\ UNCHANGED <<board, nextPieces, bag, heldPiece, canHold, score, level, lines,
                 highScore, gameState, dropSpeed, perfectPieceMode, drawn, holdUsed,
                 cmdsLeft, drawsLeft>>

NextPlace == Place

SpecPlace == InitPlace /\ [][NextPlace]_vars

(***************************************************************************)
(* Gravity alone: the session with the interval running and no command      *)
(***************************************************************************)
GravityDraws == 24

\* a stack under the spawn columns with two rows that only lack those columns
GravityBoard ==
  BoardOf(LAMBDA x, y : \/ (y >= 12 /\ x >= 3 /\ x <= 6)
                        \/ (y \in {10, 11} /\ (x <= 2 \/ x >= 7)))

\* the session as constructed (bag mode) or in progress in assist mode, no command
\* to come
InitGravity ==
  \/ Constructed(0, GravityDraws)
  \/ Resumed(GravityBoard, generateNewPiece("I"),
             [lines |-> 0, level |-> 1, dropSpeed |-> INITIAL_SPEED, score |-> 0],
             0, GravityDraws)

NextGravity ==
  \/ Mount
  \/ Tick

\* when a tick can run: the interval is on, and a tick that would lock still has a
\* draw of the bound left
TickEnabled ==
  /\ Mounted
  /\ gameState = "PLAYING"
  /\ \/ drawsLeft > 0
     \/ isValidMove(MoveTo(currentPiece, currentPiece.position.x,
                           currentPiece.position.y + 1), board)

\* weak fairness of Tick, WF_vars(Tick), written out with TickEnabled for the
\* enabling condition of the tick: the interval keeps calling movePiece(0, 1) while
\* the phase is PLAYING
TickFairness == []<>(~TickEnabled) \/ []<><<Tick>>_vars

\* the session under gravity alone, the ticks kept occurring
SpecGravity == InitGravity /\ [][NextGravity]_vars /\ TickFairness

(***************************************************************************)
(* Properties                                                              *)
(***************************************************************************)
\* the step was taken by the handler op (a step of [Next]_vars that changes vars and
\* leaves last.op = op was taken by the one action that records op)
Ran(op) == last'.op = op

Resets == {"mount", "reset", "toggle"}

FourInARow(row) ==
  \E x \in 1..(BOARD_WIDTH - 3) : \A k \in 0..3 : row[x + k] # Null

FullRows(brd) == {y \in 1..BOARD_HEIGHT : \A x \in 1..BOARD_WIDTH : brd[y][x] # Null}

\* C1 (as the specification states it): from an empty board and a freshly spawned I
\* piece at rotation 0, right after one hardDrop the board has exactly one row with 4
\* consecutive filled cells, the bottom row, the line count is still 0 and the score
\* has grown by the hard-drop bonus only.
C1_HardDropScenario ==
  [][(/\ Ran("hardDrop")
      /\ gameState = "PLAYING"
      /\ board = createEmptyBoard
      /\ currentPiece = generateNewPiece("I"))
     => (/\ {y \in 1..BOARD_HEIGHT : FourInARow(board'[y])} = {BOARD_HEIGHT}
         /\ lines' = 0
         /\ score' = score + last'.dist * POINTS_HARD_DROP)]_vars

\* C2 (as the specification states it): once the phase is GAME_OVER, no command
\* other than reset changes the phase or the board.
C2_GameOverIsTerminal ==
  [][(gameState = "GAME_OVER" /\ ~Ran("reset"))
     => (gameState' = "GAME_OVER" /\ board' = board)]_vars

\* C3 (as the specification states it): in every state whose phase is PLAYING the
\* ghost piece is getGhostPiecePosition(active piece, board held in the state).
C3_GhostIsProjection ==
  (Mounted /\ gameState = "PLAYING")
     => ghostPiece = getGhostPiecePosition(currentPiece, board)

\* the lock of this step completes exactly one row of the board
LockCompletesOneRow ==
  /\ last'.locked
  /\ Cardinality(FullRows(addPieceToBoard(board, currentPiece))) = 1

\* C4 (as the specification states it): a lock that completes exactly one row at
\* level L reports at least 1 cleared row and adds calculateScore(1, L) times L to
\* the score.
C4_SingleLineScoreTimesLevel ==
  [][LockCompletesOneRow
     => (/\ last'.cleared >= 1
         /\ score' = score + calculateScore(1, level) * level)]_vars

\* C4 (amended): a lock that completes exactly one row at level L reports at least 1
\* cleared row and adds 100 * L, which is calculateScore(1, L), to the score.
C4_SingleLineScore ==
  [][LockCompletesOneRow
     => (/\ last'.cleared >= 1
         /\ score' = score + 100 * level)]_vars

\* a one-row lock at level 2 has paid 200
C4_Witness ==
  /\ last.locked
  /\ last.cleared = 1
  /\ lines = 11
  /\ level = 2
  /\ score = 2000

\* C5: in fair-bag mode, number the kinds getNextPiece has handed out since the bag
\* was reset, the piece resetGame itself takes being draw 1; no kind occurs twice
\* within a block of draws 1-7, 8-14, ..., so that a complete block holds each of
\* the 7 kinds exactly once.
C5_BagBlocks ==
  ~perfectPieceMode
     => \A i, j \in 1..Len(drawn) :
           (i < j /\ (i - 1) \div 7 = (j - 1) \div 7) => drawn[i] # drawn[j]

\* a hold has drawn, and the draws have completed the first block and begun the next
C5_Witness ==
  /\ ~perfectPieceMode
  /\ heldPiece # Null
  /\ Len(drawn) = 8
  /\ {drawn[i] : i \in 1..7} = Kinds

\* C6: a rotate in PLAYING targets rotation (current + 1) mod 4 and commits the
\* rotated piece displaced by the first offset of getWallKicks(piece, current), in
\* table order, for which isValidMove holds; with no valid offset the active piece
\* is unchanged; the board is unchanged in either case.
C6_RotateFirstValidKick ==
  [][(Ran("rotate") /\ gameState = "PLAYING" /\ currentPiece # NoPiece)
     => LET rotated == [currentPiece EXCEPT !.rotation = (@ + 1) % 4]
            kicks == getWallKicks(currentPiece, currentPiece.rotation)
            valid == {i \in 1..Len(kicks) : isValidMove(Kicked(rotated, kicks[i]), board)}
        IN  /\ board' = board
            /\ valid = {} => currentPiece' = currentPiece
            /\ valid # {} =>
                  \E i \in valid :
                     /\ \A j \in valid : i <= j
                     /\ currentPiece' = Kicked(rotated, kicks[i])]_vars

\* a rotation that the unshifted offset did not allow was committed with a later one
C6_Witness ==
  /\ last.op = "rotate"
  /\ last.kick > 1
  /\ gameState = "PLAYING"

\* C7: from a hold that took effect until a lock spawns a new active piece or the
\* session is reset, a hold command leaves the session state unchanged.
C7_HoldOneShot ==
  [][(Ran("hold") /\ holdUsed) => UNCHANGED session]_vars

\* a second hold on the same piece was ignored
C7_Witness ==
  /\ last.op = "hold"
  /\ ~last.ret
  /\ holdUsed
  /\ gameState = "PLAYING"
  /\ heldPiece # Null

\* C8: when a piece locks, the board becomes the merged board with its full rows
\* cleared; the phase becomes GAME_OVER iff the piece freshly spawned for the kind
\* handed out is invalid on that board, and otherwise that piece is the active piece
\* and the phase stays PLAYING.
C8_GameOverIffSpawnBlocked ==
  [][last'.locked
     => LET spawned == generateNewPiece(drawn'[Len(drawn')])
        IN  /\ gameState = "PLAYING"
            /\ board' = clearLines(addPieceToBoard(board, currentPiece)).newBoard
            /\ (gameState' = "GAME_OVER") <=> isGameOver(spawned, board')
            /\ ~isGameOver(spawned, board')
                  => (currentPiece' = spawned /\ gameState' = "PLAYING")]_vars

\* a lock has ended the game
C8_Witness ==
  /\ last.locked
  /\ gameState = "GAME_OVER"
  /\ isGameOver(generateNewPiece(drawn[Len(drawn)]), board)

\* C9: in every state after a reset, level = floor(lines / 10) + 1.
C9_LevelOfLines == Mounted => level = (lines \div 10) + 1

\* the tenth line has raised the level
C9_Witness ==
  /\ last.locked
  /\ last.cleared > 0
  /\ lines = 10
  /\ level = 2

\* C10: in every state after a reset the drop interval is
\* max(100, INITIAL_SPEED - (level - 1) * LEVEL_SPEED_MULTIPLIER), so it is never
\* below 100, and no step but a reset increases it.
C10_DropSpeed ==
  /\ [](Mounted =>
          LET calculated == INITIAL_SPEED - (level - 1) * LEVEL_SPEED_MULTIPLIER
          IN  /\ dropSpeed = IF calculated > 100 THEN calculated ELSE 100
              /\ dropSpeed >= 100)
  /\ [][last'.op \notin Resets => dropSpeed' <= dropSpeed]_vars

\* a level-up past the floor: level 20 asks for 50 ms and gets 100
C10_Witness ==
  /\ last.locked
  /\ last.cleared > 0
  /\ level = 20
  /\ dropSpeed = 100

\* the cells of the piece: the entries set in its rotated shape, at their board
\* coordinates
PieceCells(piece) ==
  LET shape == getRotatedShape(piece)
  IN  {<<piece.position.x + x - 1, piece.position.y + y - 1>> :
         <<x, y>> \in {q \in (1..Len(shape)) \X (1..Len(shape)) : shape[q[2]][q[1]] # 0}}

\* C11: isValidMove(piece, board) is true iff every occupied cell of the rotated
\* shape has 0 <= boardX < W and boardY < H and, when boardY >= 0, an empty board
\* cell; a cell with boardY < 0 is exempt from the occupancy test only.
C11_IsValidMoveIff ==
  last.op = "probe"
     => (last.ret <=>
           \A c \in PieceCells(currentPiece) :
              /\ 0 <= c[1]
              /\ c[1] < BOARD_WIDTH
              /\ c[2] < BOARD_HEIGHT
              /\ c[2] >= 0 => board[c[2] + 1][c[1] + 1] = Null)

\* a flat I piece wholly above the board, one column past the left edge, is rejected
C11_Witness ==
  /\ last.op = "probe"
  /\ ~last.ret
  /\ currentPiece = Tetromino("I", -1, -2, 0)

\* C12: clearLines returns a board of the same height: as many empty rows on top
\* as the board had full rows, then exactly the rows that were not full, in their
\* original order; linesCleared is the number of full rows.
C12_ClearLinesShape ==
  [][Ran("clear") =>
       LET kept == SelectSeq(board, LAMBDA row : \E x \in 1..Len(row) : row[x] = Null)
           full == Cardinality(FullRows(board))
       IN  /\ Len(board') = Len(board)
           /\ Len(board') = BOARD_HEIGHT
           /\ \A i \in 1..full : board'[i] = [x \in 1..BOARD_WIDTH |-> Null]
           /\ SubSeq(board', full + 1, Len(board')) = kept
           /\ last'.cleared = full]_vars

\* two full rows were removed from between three rows that stay
C12_Witness ==
  /\ last.op = "clear"
  /\ last.cleared = 2
  /\ Cardinality({y \in 1..Len(board) : board[y] # EmptyRow}) = 3

\* C13: in every state after a reset the preview nextPieces has exactly
\* PREVIEW_PIECES entries and equals the first PREVIEW_PIECES entries of the bag.
C13_PreviewIsBagHead ==
  Mounted => /\ Len(nextPieces) = PREVIEW_PIECES
             /\ Len(bag) >= PREVIEW_PIECES
             /\ \A i \in 1..PREVIEW_PIECES : nextPieces[i] = bag[i]

\* a lock in fair mode whose draw took the bag below PREVIEW_PIECES + 1 entries, so
\* that a second bag was appended behind the preview
C13_Witness ==
  /\ Mounted
  /\ ~perfectPieceMode
  /\ last.locked
  /\ Len(bag) > Len(TETROMINO_TYPES)

\* C14: after any sequence of commands (tick, move, rotate, hard drop, hold, pause,
\* reset, toggle) the board has exactly BOARD_HEIGHT rows of exactly BOARD_WIDTH
\* cells each.
C14_BoardDimensions ==
  Mounted => /\ Len(board) = BOARD_HEIGHT
             /\ \A y \in 1..Len(board) : Len(board[y]) = BOARD_WIDTH

\* a lock that cleared rows left the emptied rows on top of a board with cells
C14_Witness ==
  /\ Mounted
  /\ last.locked
  /\ last.cleared >= 1
  /\ board[1] = EmptyRow
  /\ board # createEmptyBoard

\* C15: when the selector (composite-score version) reaches its evaluation branch,
\* the kind it returns has a best placement whose score is less than or equal to
\* the best-placement score of every other kind that has a valid placement.
C15_SelectsLowestScore ==
  (last.op = "select" /\ last.ret)
     => LET chosen == findBestPlacement(currentPiece.type, board)
        IN  \A k \in Kinds :
               LET other == findBestPlacement(k, board)
               IN  other.found => (chosen.found /\ chosen.score <= other.score)

\* the evaluation chose a kind other than the first of the list and other than the
\* default, strictly better than some kind that has a placement
C15_Witness ==
  /\ last.op = "select"
  /\ last.ret
  /\ currentPiece.type \notin {"I", "T"}
  /\ \E k \in Kinds :
        /\ findBestPlacement(k, board).found
        /\ findBestPlacement(currentPiece.type, board).score
             < findBestPlacement(k, board).score

\* C16 (as the specification states it): toggling assist mode changes only the mode
\* flag; board, active piece, held piece, hold lock, score, line count, level, drop
\* interval and phase are the same before and after togglePerfectPieceMode, the
\* re-run of the effects included.
C16_ToggleChangesOnlyMode ==
  [][Ran("toggle") =>
       UNCHANGED <<board, currentPiece, heldPiece, canHold, score, lines, level,
                   dropSpeed, gameState>>]_vars

\* C17 (as the specification states it): in every reachable state whose phase is
\* PLAYING the active piece is in a valid position on the current board, for any
\* sequence of commands including hold and pause.
C17_ActivePieceValid ==
  (Mounted /\ gameState = "PLAYING") => isValidMove(currentPiece, board)

\* C18 (as the specification states it): whenever the session is in GAME_OVER,
\* highScore >= score: the recorded high score includes the points awarded by the
\* final lock.
C18_HighScoreCoversScore ==
  (Mounted /\ gameState = "GAME_OVER") => highScore >= score

CellCount(brd) ==
  Cardinality({c \in (1..BOARD_WIDTH) \X (1..BOARD_HEIGHT) : brd[c[2]][c[1]] # Null})

\* C19 (as the specification states it): every lock conserves cells: the number of
\* occupied board cells after the lock equals the number before plus 4 minus
\* BOARD_WIDTH times the number of rows cleared.
C19_LockConservesCells ==
  [][(Mounted' /\ last'.locked) =>
       CellCount(board') = CellCount(board) + 4 - BOARD_WIDTH * last'.cleared]_vars

\* C20: each gravity tick in PLAYING does exactly one of two things.  If the
\* position one row below is valid, the active piece moves down exactly one row and
\* the board, score and line count are unchanged.  Otherwise the piece locks at its
\* current position: the board becomes clearLines(addPieceToBoard(board, piece)),
\* the line count grows by the rows cleared and the next piece is requested from
\* the supply.
C20_TickDescendsOrLocks ==
  [][(Ran("tick") /\ gameState = "PLAYING") =>
       LET below == MoveTo(currentPiece, currentPiece.position.x,
                           currentPiece.position.y + 1)
           cl == clearLines(addPieceToBoard(board, currentPiece))
       IN  IF isValidMove(below, board)
           THEN /\ currentPiece' = below
                /\ ~last'.locked
                /\ UNCHANGED <<board, score, lines, drawn>>
           ELSE /\ last'.locked
                /\ board' = cl.newBoard
                /\ lines' = lines + cl.linesCleared
                /\ last'.cleared = cl.linesCleared
                /\ Len(drawn') = Len(drawn) + 1]_vars

\* a tick has locked the piece, cleared a row and spawned the piece it requested
C20_Witness ==
  /\ last.op = "tick"
  /\ last.locked
  /\ last.cleared = 1
  /\ gameState = "PLAYING"
  /\ Len(drawn) >= 1
  /\ currentPiece = generateNewPiece(drawn[Len(drawn)])

\* the piece k rows below where it is
Lowered(piece, k) == MoveTo(piece, piece.position.x, piece.position.y + k)

\* the largest number of consecutive one-row descents of the piece that stay valid
Descents(piece, brd) ==
  CHOOSE d \in 0..(BOARD_HEIGHT + 4) :
     /\ \A k \in 1..d : isValidMove(Lowered(piece, k), brd)
     /\ ~isValidMove(Lowered(piece, d + 1), brd)

\* C21: a hardDrop in PLAYING moves the active piece down by exactly d rows, d the
\* largest number of consecutive one-row descents that stay valid on the board,
\* leaves its x and rotation unchanged and adds exactly d * POINTS.HARD_DROP to the
\* score (0 when the piece already rests).
C21_HardDropDistance ==
  [][(Ran("hardDrop") /\ gameState = "PLAYING") =>
       /\ currentPiece' = Lowered(currentPiece, Descents(currentPiece, board))
       /\ score' = score + Descents(currentPiece, board) * POINTS_HARD_DROP
       /\ last'.dist = Descents(currentPiece, board)]_vars

\* a flat I dropped from its spawn row to the floor of the empty board
C21_Witness ==
  /\ last.op = "hardDrop"
  /\ last.dist = BOARD_HEIGHT - 2
  /\ currentPiece = Tetromino("I", 3, BOARD_HEIGHT - 2, 0)
  /\ score = (BOARD_HEIGHT - 2) * POINTS_HARD_DROP

\* C22: a soft-drop step adds exactly POINTS.SOFT_DROP to the score when the piece
\* moves down one row and adds no drop bonus when the step locks the piece instead
\* (the score then grows by the points of the rows cleared only); a gravity tick
\* never adds a drop bonus.
C22_DropBonus ==
  [][((Ran("softDrop") \/ Ran("tick")) /\ gameState = "PLAYING") =>
       IF isValidMove(Lowered(currentPiece, 1), board)
       THEN /\ currentPiece' = Lowered(currentPiece, 1)
            /\ score' = score + (IF Ran("softDrop") THEN POINTS_SOFT_DROP ELSE 0)
       ELSE /\ last'.locked
            /\ score' = score + (IF last'.cleared > 0
                                 THEN calculateScore(last'.cleared, level) ELSE 0)]_vars

\* a soft-drop step has locked the piece and paid nothing
C22_Witness ==
  /\ last.op = "softDrop"
  /\ last.locked
  /\ ~last.ret
  /\ score = 0

\* the kind at the centre of the top rows, unrotated
AtSpawn(piece) ==
  /\ piece.rotation = 0
  /\ piece.position.y = 0
  /\ piece.position.x = (BOARD_WIDTH - Len(TETROMINO_SHAPES[piece.type][1])) \div 2

\* C23: a hold that takes effect stores the previous active kind in the slot and
\* leaves board, score, lines and level unchanged.  With a non-empty slot the
\* previously held kind becomes the active piece at the spawn position with rotation
\* 0 and the bag and the preview are unchanged; with an empty slot the new active
\* piece is the next kind drawn from the supply.
C23_HoldSwapsOrDraws ==
  [][(Ran("hold") /\ gameState = "PLAYING" /\ canHold) =>
       /\ heldPiece' = currentPiece.type
       /\ AtSpawn(currentPiece')
       /\ UNCHANGED <<board, score, lines, level>>
       /\ IF heldPiece # Null
          THEN /\ currentPiece'.type = heldPiece
               /\ UNCHANGED <<bag, nextPieces, drawn>>
          ELSE /\ drawn' = Append(drawn, currentPiece'.type)
               /\ IF perfectPieceMode
                  THEN /\ \E rnd \in Seeds :
                            currentPiece'.type = selectOptimalPiece(board, rnd)
                       /\ UNCHANGED <<bag, nextPieces>>
                  ELSE /\ currentPiece'.type = Head(bag)
                       /\ bag' # bag]_vars

\* the held I has become the active piece and the T has taken its place
C23_Witness ==
  /\ last.op = "hold"
  /\ last.ret
  /\ heldPiece = "T"
  /\ currentPiece = generateNewPiece("I")
  /\ board = FirstLockBoard
  /\ drawn = <<>>

\* C24: a reset from any state yields phase PLAYING with an empty board, score 0,
\* line count 0, level 1, drop interval INITIAL_SPEED, an empty hold slot with hold
\* unlocked and a freshly spawned active piece; the high score and the assist-mode
\* flag are unchanged by the reset.
C24_ResetStartsOver ==
  [][Ran("reset") =>
       /\ gameState' = "PLAYING"
       /\ Len(board') = BOARD_HEIGHT
       /\ \A y \in 1..BOARD_HEIGHT : board'[y] = [x \in 1..BOARD_WIDTH |-> Null]
       /\ score' = 0
       /\ lines' = 0
       /\ level' = 1
       /\ dropSpeed' = INITIAL_SPEED
       /\ heldPiece' = Null
       /\ canHold'
       /\ currentPiece'.type \in Kinds
       /\ AtSpawn(currentPiece')
       /\ UNCHANGED <<highScore, perfectPieceMode>>]_vars

\* a reset of an assist-mode session in progress has started a new game
C24_Witness ==
  /\ last.op = "reset"
  /\ perfectPieceMode
  /\ gameState = "PLAYING"
  /\ board = createEmptyBoard
  /\ score = 0
  /\ Len(drawn) = 1

Motions == {"tick", "moveLeft", "moveRight", "softDrop", "rotate", "hardDrop", "hold"}

\* C25: while the phase is not PLAYING, the commands tick, move-left, move-right,
\* soft-drop, rotate, hard-drop and hold leave the whole session state (board,
\* active piece, ghost, hold slot, bag, score, lines, level, phase) unchanged.
C25_IdleOutsidePlaying ==
  [][(gameState # "PLAYING" /\ \E op \in Motions : Ran(op)) =>
       UNCHANGED session]_vars

\* a move was asked for while the session was paused
C25_Witness ==
  /\ gameState = "PAUSED"
  /\ last.op \in {"moveLeft", "moveRight", "softDrop"}
  /\ ~last.ret

\* C26: every kind the supply hands to the player (on a lock, or on a hold with an
\* empty slot) equals the first entry of the preview that was shown immediately
\* before that draw, in either supply mode.
C26_DrawIsPreviewHead ==
  [][((\E op \in Motions : Ran(op)) /\ Len(drawn') = Len(drawn) + 1) =>
       /\ Len(nextPieces) > 0
       /\ drawn'[Len(drawn')] = nextPieces[1]]_vars

\* C27: in every reachable state the session board contains no full row: after
\* each lock every complete row has been removed before the board is stored.
C27_NoFullRowStored == FullRows(board) = {}

\* a lock has completed rows and the board stored after it has none
C27_Witness ==
  /\ last.locked
  /\ last.cleared > 0
  /\ FullRows(board) = {}
  /\ CellCount(board) > 0

\* C28: from any PLAYING state, if gravity ticks keep occurring and no player
\* command is issued, the session eventually reaches GAME_OVER, in either supply
\* mode.
C28_GravityEndsGame == (gameState = "PLAYING") ~> (gameState = "GAME_OVER")

\* ticks alone have ended a session after a lock completed a row on the way
C28_Witness ==
  /\ gameState = "GAME_OVER"
  /\ last.op = "tick"
  /\ cmdsLeft = 0
  /\ lines > 0
  /\ Len(drawn) > 2

\* C29: for every board, kind, rotation and anchor x, if the placement evaluator
\* accepts a placement resting at row y, then the piece is valid at every row 0..y
\* of that column position: the resting position is reached by a straight drop
\* from the top without passing through an occupied cell.
C29_AcceptedIsStraightDrop ==
  (last.op = "place" /\ last.ret) =>
     \A y \in 0..ghostPiece.position.y :
        isValidMove(MoveTo(currentPiece, currentPiece.position.x, y), board)

====
